---------------------------- MODULE Spec2Model ----------------------------
(***************************************************************************)
(* Arrivals-aggregation core of amsterdam-flight-vibe.                     *)
(*                                                                         *)
(*   - the airport metadata resolver (fetchAirportData,                    *)
(*     batchFetchAirportData, fetchOpenFlightsData),                       *)
(*   - the primary (Schiphol) handler with its response cache,             *)
(*   - the multi-status (aviationstack) handler of arrivals-cdg.js.        *)
(*                                                                         *)
(* Time is counted in minutes (Date.now() in the source is milliseconds;   *)
(* every duration of the source is a whole number of minutes).  The value  *)
(* 0 stands for JavaScript's null/undefined timestamp: the source tests    *)
(* timestamps for truthiness, and the clock never reads 0.                 *)
(***************************************************************************)
EXTENDS Integers, Sequences, FiniteSets, TLC

VARIABLES
    now,              \* Date.now(), in minutes
    airportCache,     \* Map iataCode -> airport record
    lastCacheUpdate,  \* timestamp of the airport cache, 0 = null
    apiCallsCount,    \* calls made to the airport lookup API
    resolved,         \* what the last resolver call did (observation)
    lookups,          \* fetchAirportData calls suspended at an await
    flightCaches,     \* arrivals-cdg.js: airport code -> {data, time}
    cdg,              \* arrivals-cdg.js: the invocation in progress
    cdgResponse,      \* arrivals-cdg.js: what the last invocation returned
    flightDataCache,  \* primary handler: Map cacheKey -> {data, timestamp}
    inv,              \* primary handler: the invocation in progress
    response,         \* primary handler: what the last invocation returned
    stored            \* history: the last response stored under each key

airportVars == <<airportCache, lastCacheUpdate, apiCallsCount, resolved, lookups>>

cdgVars == <<flightCaches, cdg, cdgResponse>>

primaryVars == <<flightDataCache, inv, response, stored>>

vars == <<now, airportVars, cdgVars, primaryVars>>

----------------------------------------------------------------------------
(* Program constants *)

CACHE_DURATION == 30 * 24 * 60

MAX_API_CALLS == 90

CACHE_MS == 5

FLIGHT_CACHE_DURATION == 15

MAX_PAST_PAGES == 3

DefaultMaxPages == 200

GraceMinutes == 15

LookAheadHours == 24

\* Europe/Amsterdam, minutes ahead of UTC (winter time).
TzOffset == 60

(* Bounds of the model *)

StartNow == 1

MaxEpochs == 1

CdgSlack == 1

FeedCap == 5

CacheSlack == 1

----------------------------------------------------------------------------
(* Airport metadata resolver *)

AirportCodes == {"CDG", "LHR"}

\* Answers of the airport lookup API: one record, an empty data list, or a
\* failed request (axios rejects).
ApiOutcomes == {"data", "nodata", "fail"}

\* Answers of the OpenFlights dataset download.
DatasetOutcomes == {"ok", "fail"}

\* What Map.get gives for a missing key, and what fetchAirportData returns
\* when the API has no record.
Undefined == [absent |-> "undefined"]

Null == [absent |-> "null"]

IsAbsent(r) == r = Undefined \/ r = Null

\* response.data.data[0] of the lookup API for a code.
ApiAirport(code) ==
    IF code = "CDG"
    THEN [city_name |-> "Paris", country_iso2 |-> "FR", airport_name |-> "Charles de Gaulle"]
    ELSE [city_name |-> "London", country_iso2 |-> "GB", airport_name |-> "Heathrow"]

\* airports.dat, each line already split at its commas (line.split(',')),
\* the quotes around the text fields removed.  The last line of the file is
\* empty; an airport without IATA code carries \N in that column.
OpenFlightsLines ==
    << <<"1382", "Charles de Gaulle International Airport", "Paris", "France", "CDG", "LFPG">>,
       <<"507", "London Heathrow Airport", "London", "United Kingdom", "LHR", "EGLL">>,
       <<"580", "Amsterdam Airport Schiphol", "Amsterdam", "Netherlands", "AMS", "EHAM">>,
       <<"7", "Narsarsuaq Airport", "Narssarssuaq", "Greenland", "\\N", "BGBW">>,
       <<"">> >>

\* The airports parsed out of the dataset: lines with at least 5 parts and
\* a 3-letter IATA code.
ParsedAirports ==
    LET parsed(parts) == [iata |-> parts[5], city |-> parts[3],
                          country |-> parts[4], name |-> parts[2]]
    IN  { parsed(OpenFlightsLines[i]) :
            i \in { j \in DOMAIN OpenFlightsLines :
                      /\ Len(OpenFlightsLines[j]) >= 5
                      /\ Len(OpenFlightsLines[j][5]) = 3 } }

OpenFlightsCodes == { a.iata : a \in ParsedAirports }

DatasetEntry(code) ==
    LET a == CHOOSE x \in ParsedAirports : x.iata = code
    IN  [city |-> a.city, country |-> a.country, name |-> a.name]

\* The resolver's state as one record, so that the functions below can be
\* composed: cache, last (lastCacheUpdate), calls (apiCallsCount), and the
\* requests issued so far by the running call (apiReqs, dataReqs).
ResolverState(cache, last, calls) ==
    [cache |-> cache, last |-> last, calls |-> calls, apiReqs |-> 0, dataReqs |-> 0]

Has(cache, code) == code \in DOMAIN cache

Get(cache, code) == IF Has(cache, code) THEN cache[code] ELSE Undefined

Put(cache, code, entry) ==
    [c \in (DOMAIN cache) \cup {code} |-> IF c = code THEN entry ELSE cache[c]]

\* The guard of fetchOpenFlightsData: "only fetch if cache is empty or expired".
NeedsOpenFlights(s, t) ==
    \/ Cardinality(DOMAIN s.cache) = 0
    \/ s.last = 0
    \/ t - s.last >= CACHE_DURATION

\* The update of the cache with the parsed dataset.
StoreOpenFlights(s, t) ==
    [s EXCEPT
       !.cache = [c \in (DOMAIN s.cache) \cup OpenFlightsCodes |->
                    IF c \in OpenFlightsCodes THEN DatasetEntry(c)
                    ELSE s.cache[c]],
       !.last = t]

FetchOpenFlightsData(s, t, ds) ==
    IF ~NeedsOpenFlights(s, t)
    THEN s
    ELSE IF ds = "fail"
         THEN [s EXCEPT !.dataReqs = @ + 1]
         ELSE [StoreOpenFlights(s, t) EXCEPT !.dataReqs = @ + 1]

\* The cached entry is served only while the cache is not expired.
CacheFresh(s, t) == s.last # 0 /\ t - s.last < CACHE_DURATION

\* Off by one: the budget counts as exhausted one call too late.
BudgetExhaustedLate(s) == s.calls > MAX_API_CALLS

BudgetExhausted(s) == s.calls >= MAX_API_CALLS

\* fetchAirportData: the state after the call and the value returned.
FetchAirportData(s, t, code, api, ds) ==
    IF Has(s.cache, code) /\ CacheFresh(s, t)
    THEN [st |-> s, result |-> s.cache[code]]
    ELSE IF BudgetExhausted(s)
    THEN LET s1 == FetchOpenFlightsData(s, t, ds)
         IN  [st |-> s1, result |-> Get(s1.cache, code)]
    ELSE IF api = "fail"
    THEN LET s1 == FetchOpenFlightsData([s EXCEPT !.apiReqs = @ + 1], t, ds)
         IN  [st |-> s1, result |-> Get(s1.cache, code)]
    ELSE LET s1 == [s EXCEPT !.apiReqs = @ + 1, !.calls = @ + 1]
         IN  IF api = "data"
             THEN LET a == ApiAirport(code)
                      result == [city |-> a.city_name, country |-> a.country_iso2,
                                 name |-> a.airport_name, source |-> "aviationstack"]
                  IN  [st |-> [s1 EXCEPT !.cache = Put(s1.cache, code, result),
                                         !.last = IF s1.last = 0 THEN t ELSE s1.last],
                       result |-> result]
             ELSE [st |-> s1, result |-> Null]

RECURSIVE FetchEach(_, _, _, _, _)
\* The loop of batchFetchAirportData over the uncached codes.
FetchEach(s, t, codes, api, ds) ==
    IF codes = <<>>
    THEN s
    ELSE FetchEach(FetchAirportData(s, t, Head(codes), api[Head(codes)], ds).st,
                   t, Tail(codes), api, ds)

NearApiLimit(s, n) == s.calls + n > MAX_API_CALLS

BatchFetchAirportData(s, t, iataCodes, api, ds) ==
    LET uncachedCodes == SelectSeq(iataCodes, LAMBDA c : ~Has(s.cache, c))
    IN  IF Len(uncachedCodes) = 0
        THEN s
        ELSE IF NearApiLimit(s, Len(uncachedCodes))
        THEN FetchOpenFlightsData(s, t, ds)
        ELSE FetchEach(s, t, uncachedCodes, api, ds)

\* Code lists without repetition (processFlightData collects them in a Set).
CodeLists ==
    {<<>>} \cup { <<c>> : c \in AirportCodes }
           \cup { p \in AirportCodes \X AirportCodes : p[1] # p[2] }

----------------------------------------------------------------------------
(* The resolver called directly, one call at a time *)

NoCall == [op |-> "none"]

\* The invocations that share the process, and an invocation that is not
\* inside fetchAirportData.
Invocations == {"first", "second"}

Idle == [pc |-> "idle"]

Init ==
    /\ now = StartNow
    /\ airportCache = << >>
    /\ lastCacheUpdate = 0
    /\ apiCallsCount = 0
    /\ resolved = NoCall
    /\ lookups = [p \in Invocations |-> Idle]
    /\ flightCaches = << >>
    /\ cdg = [pc |-> "idle"]
    /\ cdgResponse = [statusCode |-> 0]
    /\ flightDataCache = << >>
    /\ inv = [pc |-> "idle"]
    /\ response = [statusCode |-> 0]
    /\ stored = << >>

Commit(s) ==
    /\ airportCache' = s.cache
    /\ lastCacheUpdate' = s.last
    /\ apiCallsCount' = s.calls

CallFetchAirportData ==
    \E code \in AirportCodes, api \in ApiOutcomes, ds \in DatasetOutcomes :
        LET s == ResolverState(airportCache, lastCacheUpdate, apiCallsCount)
            r == FetchAirportData(s, now, code, api, ds)
        IN  /\ Commit(r.st)
            /\ resolved' = [op |-> "fetchAirportData", code |-> code,
                            exhausted |-> BudgetExhausted(s),
                            dataset |-> ds,
                            result |-> r.result,
                            apiReqs |-> r.st.apiReqs, dataReqs |-> r.st.dataReqs]
            /\ UNCHANGED <<now, lookups, cdgVars, primaryVars>>

\* Outcomes of the lookup API for the codes of one list; the other codes are
\* never asked for.
OutcomesFor(codes) ==
    { f \in [AirportCodes -> ApiOutcomes] :
        \A c \in AirportCodes :
            (\A i \in DOMAIN codes : codes[i] # c) => f[c] = "data" }

CallBatchFetchAirportData ==
    \E codes \in CodeLists, ds \in DatasetOutcomes :
      \E api \in OutcomesFor(codes) :
        LET s == ResolverState(airportCache, lastCacheUpdate, apiCallsCount)
            s1 == BatchFetchAirportData(s, now, codes, api, ds)
        IN  /\ Commit(s1)
            /\ resolved' = [op |-> "batchFetchAirportData",
                            apiReqs |-> s1.apiReqs, dataReqs |-> s1.dataReqs]
            /\ UNCHANGED <<now, lookups, cdgVars, primaryVars>>

\* The clock moves between calls by a whole cache epoch; calls within one
\* minute of each other read the same clock.
MaxAirportNow == StartNow + MaxEpochs * CACHE_DURATION

TickAirport ==
    /\ now + CACHE_DURATION <= MaxAirportNow
    /\ now' = now + CACHE_DURATION
    /\ UNCHANGED <<airportVars, cdgVars, primaryVars>>

NextAirport ==
    \/ CallFetchAirportData
    \/ CallBatchFetchAirportData
    \/ TickAirport

SpecAirport == Init /\ [][NextAirport]_vars

----------------------------------------------------------------------------
(* Claims about the resolver, checked under SpecAirport *)

\* C1: whenever fetchAirportData(code) is called with the call budget
\* exhausted, the dataset reachable and the code in the dataset, it returns
\* metadata (neither undefined nor null).
C1_FallbackResolves ==
    ( /\ resolved.op = "fetchAirportData"
      /\ resolved.exhausted
      /\ resolved.dataset = "ok"
      /\ resolved.code \in OpenFlightsCodes )
    => ~IsAbsent(resolved.result)

\* C3: after any sequence of fetchAirportData and batchFetchAirportData
\* calls, one at a time, apiCallsCount is at most MAX_API_CALLS.
C3_BudgetNeverExceeded == apiCallsCount <= MAX_API_CALLS

\* A batch call has spent the last calls of the budget on the lookup API.
C3_Witness ==
    /\ resolved.op = "batchFetchAirportData"
    /\ resolved.apiReqs = 2
    /\ apiCallsCount = MAX_API_CALLS

----------------------------------------------------------------------------
(* The multi-status handler, netlify/functions/arrivals-cdg.js *)

\* The empty string or an absent field: JavaScript's falsy text.
NoTime == 0 - 1

\* a || b on strings.
OrElse(a, b) == IF a # "" THEN a ELSE b

\* a || b on times.
OrElseTime(a, b) == IF a # NoTime THEN a ELSE b

ToUpperCase(str) ==
    CASE str = "cdg" -> "CDG"
      [] str = "ams" -> "AMS"
      [] OTHER -> str

\* event.queryStringParameters: no parameter, or arr_iata.
CdgQueries == { << >>, [arr_iata |-> "cdg"], [arr_iata |-> "AMS"] }

\* (queryParams.arr_iata || 'CDG').toUpperCase()
ArrIata(queryParams) ==
    ToUpperCase(IF "arr_iata" \in DOMAIN queryParams
                THEN OrElse(queryParams.arr_iata, "CDG")
                ELSE "CDG")

\* process.env.AVIATIONSTACK_API_KEY, read at every invocation.
ApiKeys == {"", "key"}

\* One element of data.data.  The gate names the sighting: it is copied
\* unchanged into the output record.
Raw(status, gate, iata, icao, codeshared, scheduled, estimated) ==
    [flight |-> [iata |-> iata, icao |-> icao, codeshared |-> codeshared],
     arrival |-> [scheduled |-> scheduled, estimated |-> estimated, gate |-> gate],
     flight_status |-> status]

StatusTime(status) ==
    CASE status = "landed" -> 480
      [] status = "active" -> 540
      [] OTHER -> 600

\* The lists the feed may return for one flight_status: empty, flight KL1,
\* a codeshare entry of KL1, both, a flight known by its ICAO code and an
\* estimated time only, a flight with no code and no time.
FeedLists(status) ==
    LET t == StatusTime(status)
        kl == Raw(status, status \o "-1", "KL1", "KLM1", FALSE, t, NoTime)
        cs == Raw(status, status \o "-2", "KL1", "KLM1", TRUE, t, NoTime)
        af == Raw(status, status \o "-3", "", "AFR2", FALSE, NoTime, 500)
        nn == Raw(status, status \o "-4", "", "", FALSE, NoTime, NoTime)
    IN  { << >>, <<kl>>, <<cs>>, <<cs, kl>>, <<af>>, <<nn>> }

\* What one of the three axios.get calls gives: a rejected request, a
\* response whose data.data is a list, or one whose data.data is present
\* but is no list (spreading it throws).
FeedOutcomes(arrIata, status) ==
    IF arrIata = "CDG"
    THEN {[kind |-> "fail"], [kind |-> "malformed"]}
         \cup { [kind |-> "ok", data |-> l] : l \in FeedLists(status) }
    ELSE {[kind |-> "fail"],
          [kind |-> "ok", data |-> <<Raw(status, status \o "-5", "HV5", "TRA5",
                                         FALSE, StatusTime(status), NoTime)>>]}

\* .catch(() => ({ data: { data: [] } })) and landed.data?.data || []
FeedData(outcome) == IF outcome.kind = "ok" THEN outcome.data ELSE << >>

\* The order of the merge puts the flights already landed first.
MergeWrongOrder(landed, active, scheduled) ==
    FeedData(scheduled) \o FeedData(active) \o FeedData(landed)

Merge(landed, active, scheduled) ==
    FeedData(landed) \o FeedData(active) \o FeedData(scheduled)

\* f.flight?.iata || f.flight?.icao || Math.random().toString(): a flight
\* without code gets a key no other flight has.
FlightKey(f, i) ==
    IF OrElse(f.flight.iata, f.flight.icao) # ""
    THEN [code |-> OrElse(f.flight.iata, f.flight.icao)]
    ELSE [random |-> i]

\* The time of day of an ISO date-time, arrTime.slice(11, 16).
TimeOfDay(t) == IF t = NoTime THEN NoTime ELSE t % 1440

\* The record pushed for a raw flight (the airline, departure and aircraft
\* fields, copied the same way, are left out).
CdgRecord(f) ==
    LET arrTime == OrElseTime(f.arrival.scheduled, f.arrival.estimated)
    IN  [flightName |-> OrElse(f.flight.iata, f.flight.icao),
         scheduleDateTime |-> arrTime,
         scheduleTime |-> TimeOfDay(arrTime),
         gate |-> f.arrival.gate,
         status |-> OrElse(f.flight_status, "scheduled")]

\* The codeshare test is skipped.
SkipCodeshareNever(f) == FALSE

SkipCodeshare(f) == f.flight.codeshared

RECURSIVE Dedup(_, _, _, _)
\* The loop over allRaw: seen keys are skipped, then codeshares.
Dedup(allRaw, i, seen, flights) ==
    IF i > Len(allRaw)
    THEN flights
    ELSE LET f == allRaw[i]
             key == FlightKey(f, i)
         IN  IF key \in seen
             THEN Dedup(allRaw, i + 1, seen, flights)
             ELSE IF SkipCodeshare(f)
             THEN Dedup(allRaw, i + 1, seen \cup {key}, flights)
             ELSE Dedup(allRaw, i + 1, seen \cup {key}, Append(flights, CdgRecord(f)))

RECURSIVE InsertByTime(_, _)
\* x placed after every record that does not sort after it (a stable sort).
InsertByTime(sorted, x) ==
    IF sorted = << >> \/ x.scheduleDateTime >= sorted[Len(sorted)].scheduleDateTime
    THEN Append(sorted, x)
    ELSE Append(InsertByTime(SubSeq(sorted, 1, Len(sorted) - 1), x), sorted[Len(sorted)])

RECURSIVE SortByTime(_)
\* flights.sort by scheduleDateTime, the empty time first.
SortByTime(flights) ==
    IF flights = << >>
    THEN << >>
    ELSE InsertByTime(SortByTime(SubSeq(flights, 1, Len(flights) - 1)),
                      flights[Len(flights)])

CdgFlights(landed, active, scheduled) ==
    SortByTime(Dedup(Merge(landed, active, scheduled), 1, {}, << >>))

\* cached && (Date.now() - cached.time) < CACHE_MS
CdgCacheHit(caches, key, t) ==
    key \in DOMAIN caches /\ t - caches[key].time < CACHE_MS

\* The requests have no .catch: a rejected request rejects Promise.all.
ThrewOnFailure(landed, active, scheduled) ==
    \E o \in {landed, active, scheduled} : o.kind # "ok"

\* Spreading a data.data that is no list throws inside the try block.
Threw(landed, active, scheduled) ==
    \E o \in {landed, active, scheduled} : o.kind = "malformed"

\* The handler up to its await: the cache check, the key check, the three
\* requests sent.
CdgInvoke ==
    \E queryParams \in CdgQueries, apiKey \in ApiKeys :
        LET cacheKey == ArrIata(queryParams)
        IN  /\ cdg.pc = "idle"
            /\ IF CdgCacheHit(flightCaches, cacheKey, now)
               THEN /\ cdgResponse' =
                         [statusCode |-> 200, apiKey |-> apiKey, requests |-> 0,
                          body |-> [flights |-> flightCaches[cacheKey].data.flights,
                                    meta |-> flightCaches[cacheKey].data.meta,
                                    cached |-> TRUE,
                                    cacheAge |-> (now - flightCaches[cacheKey].time) * 60]]
                    /\ UNCHANGED cdg
               ELSE IF apiKey = ""
               THEN /\ cdgResponse' =
                         [statusCode |-> 500, apiKey |-> apiKey, requests |-> 0,
                          body |-> [error |-> "No API key configured"]]
                    /\ UNCHANGED cdg
               ELSE /\ cdg' = [pc |-> "awaiting", arrIata |-> ArrIata(queryParams)]
                    /\ cdgResponse' = [statusCode |-> 0]
            /\ UNCHANGED <<now, flightCaches, airportVars, primaryVars>>

\* The handler after Promise.all: merge, deduplicate, sort, store, respond.
CdgRespond ==
    /\ cdg.pc = "awaiting"
    /\ \E landed \in FeedOutcomes(cdg.arrIata, "landed"),
          active \in FeedOutcomes(cdg.arrIata, "active"),
          scheduled \in FeedOutcomes(cdg.arrIata, "scheduled") :
         LET feeds == [landed |-> landed, active |-> active, scheduled |-> scheduled]
             flights == CdgFlights(landed, active, scheduled)
             result == [flights |-> flights,
                        meta |-> [totalFlights |-> Len(flights), airport |-> "CDG",
                                  timestamp |-> now]]
         IN  IF Threw(landed, active, scheduled)
             THEN /\ cdgResponse' =
                       [statusCode |-> 500, apiKey |-> "key", requests |-> 3,
                        feeds |-> feeds,
                        body |-> [error |-> "not iterable", flights |-> << >>]]
                  /\ UNCHANGED flightCaches
             ELSE /\ flightCaches' =
                       [k \in (DOMAIN flightCaches) \cup {cdg.arrIata} |->
                          IF k = cdg.arrIata THEN [data |-> result, time |-> now]
                          ELSE flightCaches[k]]
                  /\ cdgResponse' =
                       [statusCode |-> 200, apiKey |-> "key", requests |-> 3,
                        feeds |-> feeds, body |-> result]
    /\ cdg' = [pc |-> "idle"]
    /\ UNCHANGED <<now, airportVars, primaryVars>>

\* The clock moves by just under, or exactly, the cache's time to live.
MaxCdgNow == StartNow + CACHE_MS + CdgSlack

TickCdg ==
    /\ \E d \in {CACHE_MS - 1, CACHE_MS} :
         /\ now + d <= MaxCdgNow
         /\ now' = now + d
    /\ UNCHANGED <<airportVars, cdgVars, primaryVars>>

NextCdg ==
    \/ CdgInvoke
    \/ CdgRespond
    \/ TickCdg

SpecCdg == Init /\ [][NextCdg]_vars

----------------------------------------------------------------------------
(* The primary handler: helpers *)

\* Amsterdam wall-clock time of an instant (now.toLocaleString with
\* timeZone 'Europe/Amsterdam'), in minutes.
ToLocal(t) == t + TzOffset

\* format(t, 'yyyy-MM-dd'): the day, counted in days.
DateOf(t) == t \div 1440

\* event.queryStringParameters is an object: names in insertion order,
\* each with its value.  A query is a sequence of <<name, value>> pairs.
ParamNames(params) == { params[i][1] : i \in DOMAIN params }

ParamGet(params, name) ==
    IF name \in ParamNames(params)
    THEN params[CHOOSE i \in DOMAIN params : params[i][1] = name][2]
    ELSE ""

\* delete params[name], for each of the names.
Without(params, names) == SelectSeq(params, LAMBDA p : p[1] \notin names)

\* parseInt on the texts used here; 0 also stands for NaN (both are falsy
\* in parseInt(x) || 200).
ParseInt(str) ==
    CASE str = "1" -> 1
      [] str = "2" -> 2
      [] str = "3" -> 3
      [] str = "4" -> 4
      [] str = "5" -> 5
      [] str = "-1" -> 0 - 1
      [] OTHER -> 0

MaxPagesOf(queryParams) ==
    IF ParseInt(ParamGet(queryParams, "maxPages")) # 0
    THEN ParseInt(ParamGet(queryParams, "maxPages"))
    ELSE DefaultMaxPages

validParams ==
    {"scheduleDate", "scheduleTime", "flightName", "flightDirection",
     "airline", "airlineCode", "route", "includedelays", "page",
     "sort", "fromDateTime", "toDateTime", "searchDateTimeField",
     "fromScheduleDate", "toScheduleDate", "isOperationalFlight"}

\* validateAndCleanParams: the request parameters as a map name -> value.
ValidateAndCleanParams(params) ==
    [ n \in (ParamNames(params) \cap validParams) \cup {"flightDirection"} |->
        IF n = "flightDirection" THEN "A" ELSE ParamGet(params, n) ]

\* getFlightCacheKey: the date joined with the JSON text of the parameters
\* (page removed, insertion order kept), or with the time window.
GetFlightCacheKey(date, timeWindow, params) ==
    IF Len(params) > 0
    THEN [date |-> date, json |-> Without(params, {"page"})]
    ELSE [date |-> date, window |-> OrElse(timeWindow, "all")]

\* Off by one: an entry exactly as old as the TTL still counts as valid.
IsFlightCacheValidLate(cache, key, t) ==
    /\ key \in DOMAIN cache
    /\ cache[key].timestamp # 0
    /\ t - cache[key].timestamp <= FLIGHT_CACHE_DURATION

\* isFlightCacheValid(flightDataCache.get(key))
IsFlightCacheValid(cache, key, t) ==
    /\ key \in DOMAIN cache
    /\ cache[key].timestamp # 0
    /\ t - cache[key].timestamp < FLIGHT_CACHE_DURATION

Max(a, b) == IF a >= b THEN a ELSE b

\* estimateStartingPage: two pages for every hour since 06:00.
EstimateStartingPage(nlTime) ==
    LET hour == (nlTime % 1440) \div 60
        minute == nlTime % 60
        hoursFromStart == IF hour - 6 < 0 THEN hour - 6 + 24 ELSE hour - 6
        hourBasedPage == hoursFromStart * 2
        minuteAdjustment == (minute * 2) \div 60
    IN  Max(0, hourBasedPage + minuteAdjustment)

\* new Date(`${scheduleDate}T${scheduleTime}`)
ScheduleInstant(flight) == flight.scheduleDate * 1440 + flight.scheduleTime

\* The grace buffer is left out.
IsFlightInFutureNoGrace(flight, currentTime) ==
    /\ flight.scheduleDate # NoTime
    /\ flight.scheduleTime # NoTime
    /\ ScheduleInstant(flight) >= currentTime

IsFlightInFuture(flight, currentTime) ==
    /\ flight.scheduleDate # NoTime
    /\ flight.scheduleTime # NoTime
    /\ ScheduleInstant(flight) >= currentTime - GraceMinutes

\* TIME_WINDOWS[timeWindow], for the windows asked for here.
WindowDetails(timeWindow) ==
    IF timeWindow = "current"
    THEN [displayName |-> "Current Arrivals", dynamicWindow |-> TRUE,
          description |-> "Now +-2 hours"]
    ELSE [absent |-> "undefined"]

\* The first match of /\(([A-Z]{3})\)/ in a destination label, "" if none.
ParenCode(label) ==
    CASE label = "Paris (CDG)" -> "CDG"
      [] label = "London (LHR)" -> "LHR"
      [] OTHER -> ""

\* destination.includes('(')
IncludesParen(label) == label \in {"Paris (CDG)", "London (LHR)"}

\* The characters of the country texts the resolver stores.
Chars(str) ==
    CASE str = "FR" -> <<"F", "R">>
      [] str = "GB" -> <<"G", "B">>
      [] str = "France" -> <<"F", "r", "a", "n", "c", "e">>
      [] str = "United Kingdom" -> <<"U", "n", "i", "t", "e", "d">>
      [] str = "Netherlands" -> <<"N", "e", "t", "h", "e", "r">>
      [] OTHER -> << >>

Letters ==
    <<"A", "B", "C", "D", "E", "F", "G", "H", "I", "J", "K", "L", "M",
      "N", "O", "P", "Q", "R", "S", "T", "U", "V", "W", "X", "Y", "Z">>

LowerLetters ==
    <<"a", "b", "c", "d", "e", "f", "g", "h", "i", "j", "k", "l", "m",
      "n", "o", "p", "q", "r", "s", "t", "u", "v", "w", "x", "y", "z">>

\* charCodeAt of countryCode.toUpperCase(), for letters.
UpperCharCode(ch) ==
    IF \E i \in DOMAIN Letters : Letters[i] = ch
    THEN 64 + (CHOOSE i \in DOMAIN Letters : Letters[i] = ch)
    ELSE 64 + (CHOOSE i \in DOMAIN LowerLetters : LowerLetters[i] = ch)

RegionalIndicatorA == 127462

\* getFlagEmoji: the two code points of the flag, nothing for an absent
\* country.  Called here with texts of two letters or more.
GetFlagEmoji(countryCode) ==
    IF countryCode = ""
    THEN << >>
    ELSE << RegionalIndicatorA + UpperCharCode(Chars(countryCode)[1]) - 65,
            RegionalIndicatorA + UpperCharCode(Chars(countryCode)[2]) - 65 >>

----------------------------------------------------------------------------
(* The primary handler: one invocation at a time *)

\* process.env.SCHIPHOL_APP_ID and SCHIPHOL_APP_KEY, read at every invocation.
Credentials ==
    { [appId |-> "id", appKey |-> "key"],
      [appId |-> "", appKey |-> "key"],
      [appId |-> "id", appKey |-> ""] }

\* One flight of the feed, scheduled at wall-clock minute t.
FeedFlight(name, t, label) ==
    [flightName |-> name, scheduleDate |-> DateOf(t), scheduleTime |-> TimeOfDay(t),
     route |-> [destinations |-> <<label>>]]

\* What one axios call of fetchPage gives: a failure (a rejected request
\* or a status other than 200), a body whose flights field is no list
\* (filtering it throws), or a list of flights with or without a link to a
\* next page.
PageOutcomes(lists) ==
    {[kind |-> "fail"], [kind |-> "malformed"]}
    \cup { [kind |-> "ok", flights |-> l, next |-> b] : l \in lists, b \in BOOLEAN }

\* const flights = data.flights || [], or the empty page of a failure.
PageFlights(o) == IF o.kind = "ok" THEN o.flights ELSE << >>

\* hasMore = Boolean(nextUrl)
PageHasMore(o) == o.kind = "ok" /\ o.next

MapSet(map, name, value) ==
    [n \in (DOMAIN map) \cup {name} |-> IF n = name THEN value ELSE map[n]]

\* The parameters of the first request: the caller's filter parameters or
\* the date-time range, the default sort and page, the estimated page.
BuildApiParams(rawQueryParams, nlTime) ==
    LET base == IF Len(rawQueryParams) > 0
                THEN ValidateAndCleanParams(rawQueryParams)
                ELSE [flightDirection |-> "A",
                      fromDateTime |-> nlTime,
                      toDateTime |-> nlTime + LookAheadHours * 60,
                      searchDateTimeField |-> "scheduleDateTime"]
        sorted == IF "sort" \in DOMAIN base /\ base["sort"] # ""
                  THEN base ELSE MapSet(base, "sort", "+scheduleTime")
        paged == IF "page" \in DOMAIN sorted THEN sorted ELSE MapSet(sorted, "page", "0")
    IN  IF EstimateStartingPage(nlTime) > 0
        THEN MapSet(paged, "page", ToString(EstimateStartingPage(nlTime)))
        ELSE paged

\* apiParams.scheduleDate || apiParams.fromDateTime?.split('T')[0]
TargetDate(apiParams) ==
    IF "scheduleDate" \in DOMAIN apiParams /\ apiParams["scheduleDate"] # ""
    THEN [text |-> apiParams["scheduleDate"]]
    ELSE IF "fromDateTime" \in DOMAIN apiParams
    THEN [day |-> DateOf(apiParams["fromDateTime"])]
    ELSE [absent |-> "undefined"]

\* while (hasMore && pageCount < maxPages)
LoopContinues(i) == i.hasMore /\ i.pageCount < i.maxPages

\* The handler up to its first await: the credentials, the cache, the
\* parameters of the first request.
Invoke(queries) ==
    \E queryParams \in queries, env \in Credentials :
        /\ inv.pc = "idle"
        /\ IF env.appId = "" \/ env.appKey = ""
           THEN /\ response' = [statusCode |-> 500, credentials |-> FALSE,
                                requests |-> 0, airportReqs |-> 0,
                                body |-> [message |-> "Server configuration error."]]
                /\ UNCHANGED inv
           ELSE LET nlTime == ToLocal(now)
                    todayDate == DateOf(nlTime)
                    timeWindow == ParamGet(queryParams, "timeWindow")
                    rawQueryParams ==
                        Without(queryParams, {"timeWindow", "maxPages", "useDateTimeRange"})
                    maxPages == MaxPagesOf(queryParams)
                    cacheKey == GetFlightCacheKey(todayDate, timeWindow, rawQueryParams)
                    cachedData == flightDataCache[cacheKey]
                    started == [pc |-> "paging", start |-> now, nlTime |-> nlTime,
                                timeWindow |-> timeWindow, rawQueryParams |-> rawQueryParams,
                                cacheKey |-> cacheKey,
                                apiParams |-> BuildApiParams(rawQueryParams, nlTime),
                                maxPages |-> maxPages, allFlights |-> << >>,
                                pageCount |-> 0, totalFlightsSeen |-> 0,
                                hasMore |-> TRUE, pastFlightPagesCount |-> 0,
                                requests |-> 0, lastPage |-> "none",
                                lastMore |-> FALSE, page |-> << >>,
                                kept |-> << >>, trail |-> << >>,
                                stop |-> "none"]
                IN  IF IsFlightCacheValid(flightDataCache, cacheKey, now)
                    THEN /\ response' =
                              [statusCode |-> 200, credentials |-> TRUE,
                               requests |-> 0, airportReqs |-> 0,
                               cacheKey |-> cacheKey, start |-> now,
                               body |-> [flights |-> cachedData.data.flights,
                                         timeInfo |-> cachedData.data.timeInfo,
                                         meta |-> [totalFlights |-> cachedData.data.meta.totalFlights,
                                                   pagesRetrieved |-> cachedData.data.meta.pagesRetrieved,
                                                   hasMorePages |-> cachedData.data.meta.hasMorePages,
                                                   cached |-> TRUE,
                                                   cacheAge |-> (now - cachedData.timestamp) * 60,
                                                   nextUpdate |-> (cachedData.timestamp
                                                       + FLIGHT_CACHE_DURATION - now) * 60]]]
                         /\ UNCHANGED inv
                    ELSE /\ inv' = IF LoopContinues(started)
                                    THEN started
                                    ELSE [started EXCEPT !.pc = "processing",
                                                         !.stop = "condition"]
                         /\ response' = [statusCode |-> 0]
        /\ UNCHANGED <<now, flightDataCache, stored, airportVars, cdgVars>>

\* The page counter is not advanced.
SamePageCount(pageCount) == pageCount

\* pageCount++
NextPageCount(pageCount) == pageCount + 1

\* The counter of pages without future flights is never reset.
PastPagesNeverReset(count, futureFlights) ==
    IF Len(futureFlights) = 0 THEN count + 1 ELSE count

\* pastFlightPagesCount++ for a page without future flights, else = 0
PastPages(count, futureFlights) ==
    IF Len(futureFlights) = 0 THEN count + 1 ELSE 0

\* One turn of the pagination loop, given the page fetched.  The fields
\* lastPage, lastMore, page, kept, trail and stop record what the turn saw
\* and why the loop ended; the handler does not read them.
LoopBody(i, o) ==
    LET flights == PageFlights(o)
        morePages == PageHasMore(o)
        futureFlights == SelectSeq(flights, LAMBDA f : IsFlightInFuture(f, i.nlTime))
        past == PastPages(i.pastFlightPagesCount, futureFlights)
        i1 == [i EXCEPT !.requests = @ + 1, !.lastPage = o.kind,
                        !.lastMore = morePages, !.page = flights,
                        !.kept = futureFlights,
                        !.trail = IF Len(flights) = 0 THEN @
                                  ELSE Append(@, IF Len(futureFlights) = 0
                                                 THEN "past" ELSE "future")]
        i2 == [i1 EXCEPT !.pastFlightPagesCount = past,
                         !.totalFlightsSeen = @ + Len(flights),
                         !.allFlights = @ \o futureFlights]
        i3 == [i2 EXCEPT !.pageCount = NextPageCount(@)]
    IN  IF Len(flights) = 0
        THEN [i1 EXCEPT !.pc = "processing", !.stop = "empty"]
        ELSE IF Len(futureFlights) = 0 /\ past >= MAX_PAST_PAGES
        THEN [i1 EXCEPT !.pastFlightPagesCount = past, !.pc = "processing",
                        !.stop = "past"]
        ELSE IF ~morePages
        THEN [i2 EXCEPT !.hasMore = FALSE, !.pc = "processing", !.stop = "last"]
        ELSE IF i.pageCount >= i.maxPages - 1
        THEN [i2 EXCEPT !.hasMore = morePages, !.pc = "processing",
                        !.stop = "budget"]
        ELSE IF LoopContinues(i3)
        THEN i3
        ELSE [i3 EXCEPT !.pc = "processing", !.stop = "condition"]

\* The error response of the handler's catch block.
InternalError(i, requests) ==
    [statusCode |-> 500, credentials |-> TRUE, requests |-> requests,
     airportReqs |-> 0, cacheKey |-> i.cacheKey, start |-> i.start,
     body |-> [message |-> "Internal Server Error.", error |-> "TypeError",
               flights |-> << >>]]

\* fetchPage answers and the loop body runs.  The feed has at most FeedCap
\* pages: it names no next page on its last one.
PageStep(lists) ==
    /\ inv.pc = "paging"
    /\ \E o \in PageOutcomes(lists) :
         /\ PageHasMore(o) => inv.requests + 1 < FeedCap
         /\ IF o.kind = "malformed"
            THEN /\ response' = InternalError(inv, inv.requests + 1)
                 /\ inv' = [pc |-> "idle"]
            ELSE /\ inv' = LoopBody(inv, o)
                 /\ UNCHANGED response
    /\ UNCHANGED <<now, flightDataCache, stored, airportVars, cdgVars>>

RECURSIVE IataCodes(_, _)
\* The codes of the destination labels, each once, in order of appearance.
IataCodes(flights, codes) ==
    IF flights = << >>
    THEN codes
    ELSE LET code == ParenCode(Head(flights).route.destinations[1])
         IN  IataCodes(Tail(flights),
                       IF code = "" \/ (\E i \in DOMAIN codes : codes[i] = code)
                       THEN codes ELSE Append(codes, code))

\* The second part of processFlightData for one flight.
AttachCityInfo(flight, cache) ==
    LET destination == flight.route.destinations[1]
        iataCode == ParenCode(destination)
        airportData == cache[iataCode]
    IN  IF iataCode # "" /\ Has(cache, iataCode)
        THEN [flightName |-> flight.flightName,
              scheduleDate |-> flight.scheduleDate,
              scheduleTime |-> flight.scheduleTime,
              route |-> [destinations |->
                           << IF ~IncludesParen(destination)
                              THEN airportData.city \o " (" \o iataCode \o ")"
                              ELSE destination >>],
              cityInfo |-> [city |-> airportData.city,
                            country |-> airportData.country,
                            flag |-> GetFlagEmoji(airportData.country),
                            airportName |-> airportData.name,
                            source |-> IF "source" \in DOMAIN airportData
                                       THEN airportData.source ELSE "undefined"]]
        ELSE flight

\* The comparator of allFlights.sort: a before b.
SortsBefore(a, b) ==
    IF a.scheduleTime = NoTime THEN FALSE
    ELSE IF b.scheduleTime = NoTime THEN TRUE
    ELSE a.scheduleTime < b.scheduleTime

RECURSIVE InsertByScheduleTime(_, _)
InsertByScheduleTime(sorted, x) ==
    IF sorted = << >> \/ ~SortsBefore(x, sorted[Len(sorted)])
    THEN Append(sorted, x)
    ELSE Append(InsertByScheduleTime(SubSeq(sorted, 1, Len(sorted) - 1), x),
                sorted[Len(sorted)])

RECURSIVE SortByScheduleTime(_)
\* The stable sort; the sorted front part is bound, so it is computed once.
SortByScheduleTime(flights) ==
    IF flights = << >>
    THEN << >>
    ELSE CHOOSE r \in { InsertByScheduleTime(sorted, flights[Len(flights)]) :
                          sorted \in { SortByScheduleTime(
                                          SubSeq(flights, 1, Len(flights) - 1)) } } :
            TRUE

\* The clean-up loop after the write: invalid entries are deleted.
Sweep(cache, t) ==
    [k \in { j \in DOMAIN cache : IsFlightCacheValid(cache, j, t) } |-> cache[k]]

\* The handler after the loop: processFlightData, the sort, the response,
\* the cache write and the clean-up.
Finish(apiOutcomes, datasetOutcomes) ==
    /\ inv.pc = "processing"
    /\ \E iataCodes \in { IataCodes(inv.allFlights, << >>) } :
       \E ds \in datasetOutcomes :
           \E api \in { f \in OutcomesFor(iataCodes) :
                          \A i \in DOMAIN iataCodes : f[iataCodes[i]] \in apiOutcomes } :
           \E s \in { BatchFetchAirportData(
                          ResolverState(airportCache, lastCacheUpdate, apiCallsCount),
                          now, iataCodes, api, ds) } :
           \E processed \in { [k \in DOMAIN inv.allFlights |->
                                 AttachCityInfo(inv.allFlights[k], s.cache)] } :
           \E allFlights \in { SortByScheduleTime(processed) } :
           \E data \in { [flights |-> allFlights,
                          timeInfo |-> [queryTime |-> inv.nlTime,
                                        targetDate |-> TargetDate(inv.apiParams),
                                        timeWindow |-> inv.timeWindow,
                                        windowDetails |-> WindowDetails(inv.timeWindow)],
                          meta |-> [totalFlights |-> Len(allFlights),
                                    pagesRetrieved |-> inv.pageCount + 1,
                                    hasMorePages |-> inv.hasMore,
                                    cached |-> FALSE]] } :
             LET entry == [data |-> data, timestamp |-> now]
             IN  /\ Commit(s)
                 /\ flightDataCache' = Sweep(MapSet(flightDataCache, inv.cacheKey, entry), now)
                 /\ stored' = MapSet(stored, inv.cacheKey,
                                     [data |-> data, timestamp |-> now,
                                      params |-> inv.rawQueryParams])
                 /\ response' = [statusCode |-> 200, credentials |-> TRUE,
                                 requests |-> inv.requests,
                                 airportReqs |-> s.apiReqs + s.dataReqs,
                                 cacheKey |-> inv.cacheKey, start |-> inv.start,
                                 rawQueryParams |-> inv.rawQueryParams,
                                 maxPages |-> inv.maxPages,
                                 lastPage |-> inv.lastPage,
                                 lastMore |-> inv.lastMore,
                                 stop |-> inv.stop,
                                 body |-> data]
    /\ inv' = [pc |-> "idle"]
    /\ UNCHANGED <<now, resolved, lookups, cdgVars>>

----------------------------------------------------------------------------
(* The pagination scenario: requests that differ in maxPages only, within
   one minute, against a feed of up to FeedCap pages. *)

PagingQueries ==
    { << >>,
      << <<"maxPages", "1">> >>,
      << <<"maxPages", "2">> >>,
      << <<"maxPages", "4">> >>,
      << <<"maxPages", "-1">> >> }

\* The pages of the feed: empty; a flight 20 minutes past; a flight an
\* hour ahead; flights 10, 15 and 20 minutes past with one that has no
\* schedule time and one that has no schedule date.
PagingLists(nlTime) ==
    { << >>,
      << FeedFlight("KL20", nlTime - 20, "CDG") >>,
      << FeedFlight("KL60", nlTime + 60, "Paris (CDG)") >>,
      << FeedFlight("KL10", nlTime - 10, "CDG"),
         FeedFlight("KL15", nlTime - GraceMinutes, "CDG"),
         FeedFlight("KL20", nlTime - 20, "CDG"),
         [FeedFlight("KLT", nlTime + 60, "CDG") EXCEPT !.scheduleTime = NoTime],
         [FeedFlight("KLD", nlTime + 60, "CDG") EXCEPT !.scheduleDate = NoTime] >> }

InvokePaging == Invoke(PagingQueries)

PageStepPaging == PageStep(PagingLists(inv.nlTime))

FinishPaging == Finish(ApiOutcomes, DatasetOutcomes)

NextPaging ==
    \/ InvokePaging
    \/ PageStepPaging
    \/ FinishPaging

SpecPaging == Init /\ [][NextPaging]_vars

\* The event loop runs the continuation of an await once the answer is
\* there: a started invocation goes on.
SpecPagingFair ==
    SpecPaging /\ WF_vars(PageStepPaging) /\ WF_vars(FinishPaging)

----------------------------------------------------------------------------
(* The cache scenario: three kinds of request of one page each, the clock
   moving between and during invocations, the airport lookup API and the
   dataset out of reach. *)

CacheQueries ==
    { << <<"maxPages", "1">> >>,
      << <<"timeWindow", "current">>, <<"maxPages", "1">> >>,
      << <<"flightName", "KL60">>, <<"maxPages", "1">> >> }

\* The pages of the feed: empty; a flight exactly 15 minutes past; a flight
\* five hours ahead listed before one an hour ahead.
CacheLists(nlTime) ==
    { << >>,
      << FeedFlight("KL15", nlTime - GraceMinutes, "CDG") >>,
      << FeedFlight("KL300", nlTime + 300, "LHR"),
         FeedFlight("KL60", nlTime + 60, "Paris (CDG)") >> }

InvokeCache == Invoke(CacheQueries)

PageStepCache == PageStep(CacheLists(inv.nlTime))

MaxCacheNow == StartNow + FLIGHT_CACHE_DURATION + CacheSlack

\* The clock moves by just under, or exactly, the cache's time to live.
TickCache ==
    /\ \E d \in {FLIGHT_CACHE_DURATION - 1, FLIGHT_CACHE_DURATION} :
         /\ now + d <= MaxCacheNow
         /\ now' = now + d
    /\ UNCHANGED <<airportVars, cdgVars, primaryVars>>

FinishCache == Finish({"fail"}, {"fail"})

NextCache ==
    \/ InvokeCache
    \/ PageStepCache
    \/ FinishCache
    \/ TickCache

SpecCache == Init /\ [][NextCache]_vars

----------------------------------------------------------------------------
(* The parameter scenario: requests with filter parameters, in either
   order, with and without page, with an unknown key only, or with none;
   one page each, within one minute, the airport services out of reach. *)

ParamQueries ==
    { << <<"maxPages", "1">> >>,
      << <<"foo", "bar">>, <<"maxPages", "1">> >>,
      << <<"flightName", "KL60">>, <<"airline", "KL">>, <<"maxPages", "1">> >>,
      << <<"flightName", "KL60">>, <<"airline", "KL">>, <<"page", "5">>,
         <<"flightDirection", "D">>, <<"maxPages", "1">> >>,
      << <<"airline", "KL">>, <<"flightName", "KL60">>, <<"maxPages", "1">> >> }

ParamLists(nlTime) == { << FeedFlight("KL60", nlTime + 60, "CDG") >> }

InvokeParams == Invoke(ParamQueries)

PageStepParams == PageStep(ParamLists(inv.nlTime))

FinishParams == Finish({"fail"}, {"fail"})

NextParams ==
    \/ InvokeParams
    \/ PageStepParams
    \/ FinishParams

SpecParams == Init /\ [][NextParams]_vars

----------------------------------------------------------------------------
(* The interleaving scenario: two invocations of one process inside
   fetchAirportData, each suspended at its awaits while the other runs;
   between two awaits a call runs alone.  The clock stands still. *)

\* fetchAirportData up to its first await: the cached answer, or the
\* budget check followed by the request to the dataset or to the lookup API.
BeginFetchAirportData(p) ==
    /\ lookups[p].pc = "idle"
    /\ \E code \in AirportCodes :
         LET s == ResolverState(airportCache, lastCacheUpdate, apiCallsCount)
         IN  lookups' = [lookups EXCEPT ![p] =
                 IF Has(s.cache, code) /\ CacheFresh(s, now)
                 THEN Idle
                 ELSE IF BudgetExhausted(s)
                 THEN IF NeedsOpenFlights(s, now) THEN [pc |-> "dataset"] ELSE Idle
                 ELSE [pc |-> "lookup", code |-> code]]
    /\ UNCHANGED <<now, airportCache, lastCacheUpdate, apiCallsCount, resolved,
                   cdgVars, primaryVars>>

\* The lookup API answers: the counter is incremented and the record
\* stored, or the catch block turns to the dataset.
LookupAnswers(p) ==
    /\ lookups[p].pc = "lookup"
    /\ \E api \in ApiOutcomes :
         LET s == ResolverState(airportCache, lastCacheUpdate, apiCallsCount)
             code == lookups[p].code
             a == ApiAirport(code)
             result == [city |-> a.city_name, country |-> a.country_iso2,
                        name |-> a.airport_name, source |-> "aviationstack"]
         IN  IF api = "fail"
             THEN /\ lookups' = [lookups EXCEPT ![p] =
                        IF NeedsOpenFlights(s, now) THEN [pc |-> "dataset"] ELSE Idle]
                  /\ UNCHANGED <<airportCache, lastCacheUpdate, apiCallsCount>>
             ELSE /\ apiCallsCount' = apiCallsCount + 1
                  /\ airportCache' = IF api = "data"
                                     THEN Put(airportCache, code, result)
                                     ELSE airportCache
                  /\ lastCacheUpdate' = IF api = "data" /\ lastCacheUpdate = 0
                                        THEN now ELSE lastCacheUpdate
                  /\ lookups' = [lookups EXCEPT ![p] = Idle]
    /\ UNCHANGED <<now, resolved, cdgVars, primaryVars>>

\* The download of the dataset ends: the cache is filled, or the error is
\* logged.
DatasetAnswers(p) ==
    /\ lookups[p].pc = "dataset"
    /\ \E ds \in DatasetOutcomes :
         LET s == ResolverState(airportCache, lastCacheUpdate, apiCallsCount)
             s1 == IF ds = "ok" THEN StoreOpenFlights(s, now) ELSE s
         IN  /\ airportCache' = s1.cache
             /\ lastCacheUpdate' = s1.last
    /\ lookups' = [lookups EXCEPT ![p] = Idle]
    /\ UNCHANGED <<now, apiCallsCount, resolved, cdgVars, primaryVars>>

NextRace ==
    \E p \in Invocations :
        \/ BeginFetchAirportData(p)
        \/ LookupAnswers(p)
        \/ DatasetAnswers(p)

SpecRace == Init /\ [][NextRace]_vars

----------------------------------------------------------------------------
(* Claims about the primary handler *)

\* C2: for maxPages >= 1 and any feed, also one that names a next page on
\* every response, the loop issues at most maxPages page requests (it never
\* waits for a further page once maxPages were requested), and a started
\* invocation reaches its response.  Checked under SpecPagingFair.
C2_PagesBounded ==
    /\ []( /\ (inv.pc # "idle" /\ inv.maxPages >= 1) =>
                /\ inv.requests <= inv.maxPages
                /\ inv.pc = "paging" => inv.requests < inv.maxPages
           /\ (response.statusCode = 200 /\ ~response.body.meta.cached
                 /\ response.maxPages >= 1) =>
                response.requests <= response.maxPages )
    /\ (inv.pc # "idle") ~> (inv.pc = "idle")

\* The loop has stopped after maxPages = 4 requests although the feed
\* named a next page on each of them.
C2_Witness ==
    /\ inv.pc = "processing"
    /\ inv.maxPages = 4
    /\ inv.requests = 4
    /\ inv.hasMore

\* C6: a stored response is served, unchanged, to every invocation that
\* computes its key less than 15 minutes after it was stored, without any
\* upstream request; no invocation is served an entry 15 minutes old or
\* older.  Checked under SpecCache; stored holds the last response written
\* under each key.
C6_CacheRoundTrip ==
    /\ inv.pc # "idle" =>
         ~( /\ inv.cacheKey \in DOMAIN stored
            /\ inv.start - stored[inv.cacheKey].timestamp < FLIGHT_CACHE_DURATION )
    /\ (response.statusCode = 200 /\ response.body.meta.cached) =>
         /\ response.cacheKey \in DOMAIN stored
         /\ response.start - stored[response.cacheKey].timestamp < FLIGHT_CACHE_DURATION
         /\ response.body.flights = stored[response.cacheKey].data.flights
         /\ response.body.timeInfo = stored[response.cacheKey].data.timeInfo
         /\ response.requests = 0
         /\ response.airportReqs = 0

\* A response 14 minutes old, with flights, has been served from the cache.
C6_Witness ==
    /\ response.statusCode = 200
    /\ response.body.meta.cached
    /\ response.body.flights # << >>
    /\ response.start - stored[response.cacheKey].timestamp = FLIGHT_CACHE_DURATION - 1

\* C8: with timeWindow=current and no filter parameter, every flight of a
\* non-cached 200 response is scheduled within 2 hours of the invocation's
\* local time.
C8_CurrentWindowWithinTwoHours ==
    ( /\ response.statusCode = 200
      /\ ~response.body.meta.cached
      /\ response.body.timeInfo.timeWindow = "current"
      /\ response.rawQueryParams = << >> )
    => \A i \in DOMAIN response.body.flights :
          LET t == ScheduleInstant(response.body.flights[i])
              q == response.body.timeInfo.queryTime
          IN  t >= q - 2 * 60 /\ t <= q + 2 * 60

----------------------------------------------------------------------------
(* Claims about both handlers *)

HasEmptyFlights(body) == "flights" \in DOMAIN body /\ body.flights = << >>

\* C4: every response with status 500, of either handler, carries a body
\* with a flights field equal to the empty list.
C4_ErrorBodiesCarryFlights ==
    /\ response.statusCode = 500 => HasEmptyFlights(response.body)
    /\ cdgResponse.statusCode = 500 => HasEmptyFlights(cdgResponse.body)

\* C5: in either handler an invocation without its credentials returns 500
\* and issues no upstream request.
C5_ValidationFirst ==
    /\ (response.statusCode # 0 /\ ~response.credentials) =>
         (response.statusCode = 500 /\ response.requests = 0)
    /\ (cdgResponse.statusCode # 0 /\ cdgResponse.apiKey = "") =>
         (cdgResponse.statusCode = 500 /\ cdgResponse.requests = 0)

\* C7: right after a handler has written its response cache, the cache
\* holds no entry as old as the handler's TTL or older.
C7_NoStaleEntryAfterWrite ==
    [][ /\ flightDataCache' # flightDataCache =>
             \A k \in DOMAIN flightDataCache' :
                 now' - flightDataCache'[k].timestamp < FLIGHT_CACHE_DURATION
        /\ flightCaches' # flightCaches =>
             \A k \in DOMAIN flightCaches' :
                 now' - flightCaches'[k].time < CACHE_MS ]_vars

----------------------------------------------------------------------------
(* Claims about the multi-status handler, checked under SpecCdg *)

RawCode(f) == OrElse(f.flight.iata, f.flight.icao)

RawsOf(outcome) == { FeedData(outcome)[i] : i \in DOMAIN FeedData(outcome) }

BucketHas(outcome, code) == \E f \in RawsOf(outcome) : RawCode(f) = code

\* The bucket of highest priority that holds the code.
FirstBucketWith(feeds, code) ==
    IF BucketHas(feeds.landed, code) THEN feeds.landed
    ELSE IF BucketHas(feeds.active, code) THEN feeds.active
    ELSE feeds.scheduled

FeedCodes(feeds) ==
    { RawCode(f) : f \in RawsOf(feeds.landed) \cup RawsOf(feeds.active)
                         \cup RawsOf(feeds.scheduled) } \ {""}

\* C9: for every flight code of the three buckets the output holds at most
\* one record of that name, and that record is a sighting from the first of
\* landed, active, scheduled that holds the code.
C9_DedupByPriority ==
    (cdgResponse.statusCode = 200 /\ cdgResponse.requests = 3) =>
      LET flights == cdgResponse.body.flights
          feeds == cdgResponse.feeds
      IN  \A code \in FeedCodes(feeds) :
            /\ Cardinality({ i \in DOMAIN flights : flights[i].flightName = code }) <= 1
            /\ \A i \in DOMAIN flights :
                 flights[i].flightName = code =>
                   \E f \in RawsOf(FirstBucketWith(feeds, code)) :
                      /\ RawCode(f) = code
                      /\ f.arrival.gate = flights[i].gate
                      /\ f.flight_status = flights[i].status

\* KL1 was seen landed, active and scheduled; the output holds it as landed.
C9_Witness ==
    /\ cdgResponse.statusCode = 200
    /\ cdgResponse.requests = 3
    /\ BucketHas(cdgResponse.feeds.active, "KL1")
    /\ BucketHas(cdgResponse.feeds.scheduled, "KL1")
    /\ \E i \in DOMAIN cdgResponse.body.flights :
         /\ cdgResponse.body.flights[i].flightName = "KL1"
         /\ cdgResponse.body.flights[i].status = "landed"

\* The gates of the codeshare entries of the feed: a gate names one sighting.
CodeshareGates ==
    { f.arrival.gate :
        f \in { g \in UNION { RawsOf(o) :
                               o \in UNION { FeedOutcomes(a, st) :
                                              a \in {"CDG", "AMS"},
                                              st \in {"landed", "active", "scheduled"} } } :
                  g.flight.codeshared } }

\* C10: no record of a response or of a cached payload comes from a raw
\* flight flagged as a codeshare.
C10_NoCodeshareInOutput ==
    /\ cdgResponse.statusCode = 200 =>
         \A i \in DOMAIN cdgResponse.body.flights :
            cdgResponse.body.flights[i].gate \notin CodeshareGates
    /\ \A k \in DOMAIN flightCaches :
         \A i \in DOMAIN flightCaches[k].data.flights :
            flightCaches[k].data.flights[i].gate \notin CodeshareGates

\* A response with records was built from buckets that held a codeshare.
C10_Witness ==
    /\ cdgResponse.statusCode = 200
    /\ cdgResponse.requests = 3
    /\ cdgResponse.body.flights # << >>
    /\ \E f \in RawsOf(cdgResponse.feeds.landed) \cup RawsOf(cdgResponse.feeds.active) :
         f.flight.codeshared

OkRaws(feeds) ==
    UNION { RawsOf(o) : o \in { b \in {feeds.landed, feeds.active, feeds.scheduled} :
                                   b.kind = "ok" } }

\* C11: whichever of the three requests are rejected, the handler answers
\* 200 once all three have settled (provided no response is malformed):
\* every record comes from a branch that succeeded, and every flight code
\* the succeeded branches report without a codeshare entry has its record.
C11_FailedBranchesAreEmpty ==
    ( /\ cdgResponse.statusCode # 0
      /\ cdgResponse.requests = 3
      /\ \A b \in {"landed", "active", "scheduled"} :
            cdgResponse.feeds[b].kind # "malformed" )
    => /\ cdgResponse.statusCode = 200
       /\ \A i \in DOMAIN cdgResponse.body.flights :
            \E f \in OkRaws(cdgResponse.feeds) :
               f.arrival.gate = cdgResponse.body.flights[i].gate
       /\ \A f \in OkRaws(cdgResponse.feeds) :
            ( /\ RawCode(f) # ""
              /\ \A g \in OkRaws(cdgResponse.feeds) :
                    RawCode(g) = RawCode(f) => ~g.flight.codeshared )
            => \E i \in DOMAIN cdgResponse.body.flights :
                  cdgResponse.body.flights[i].flightName = RawCode(f)

\* The landed and scheduled requests were rejected, the active one
\* reported KL1: the response is 200 and holds KL1.
C11_Witness ==
    /\ cdgResponse.statusCode = 200
    /\ cdgResponse.requests = 3
    /\ cdgResponse.feeds.landed.kind = "fail"
    /\ cdgResponse.feeds.scheduled.kind = "fail"
    /\ cdgResponse.feeds.active.kind = "ok"
    /\ \E i \in DOMAIN cdgResponse.body.flights :
         cdgResponse.body.flights[i].flightName = "KL1"

----------------------------------------------------------------------------
(* Further claims about the airport resolver, checked under SpecAirport *)

\* C19: the bulk dataset is requested at most once per cache epoch; in
\* particular one call, which runs within a single epoch, requests it at
\* most once, whatever the lookup API and the dataset request answer.
C19_DatasetRequestedOncePerEpoch ==
    resolved.op # "none" => resolved.dataReqs <= 1

\* C20: every request issued to the lookup API increments apiCallsCount:
\* a call raises the counter by the number of lookup requests it issued.
C20_EveryRequestCounted ==
    [][ now' = now => apiCallsCount' = apiCallsCount + resolved'.apiReqs ]_vars

----------------------------------------------------------------------------
(* Further claims about the primary handler *)

\* The regional-indicator pairs of the two-letter codes the lookup API
\* stores: 0x1F1E6 + (letter - 'A') for each letter.
FlagOfCode(code) ==
    CASE code = "FR" -> <<127467, 127479>>
      [] code = "GB" -> <<127468, 127463>>
      [] OTHER -> << >>

\* C14: the flag attached to a flight is the pair of regional indicators
\* of its country's two-letter code, and is empty when the stored country
\* is not a two-letter code (the dataset stores country names).
C14_FlagOnlyForCountryCodes ==
    response.statusCode = 200 =>
      \A i \in DOMAIN response.body.flights :
         LET f == response.body.flights[i]
         IN  "cityInfo" \in DOMAIN f =>
               f.cityInfo.flag = IF Len(f.cityInfo.country) = 2
                                 THEN FlagOfCode(f.cityInfo.country)
                                 ELSE << >>

Kept(name) == \E j \in DOMAIN inv.kept : inv.kept[j].flightName = name

\* C15: of the flights of a fetched page, the loop keeps exactly those
\* that have a schedule date and a schedule time and are scheduled at or
\* after the invocation's local time minus 15 minutes.
C15_FutureWithGrace ==
    (inv.pc # "idle" /\ inv.lastPage = "ok") =>
      \A i \in DOMAIN inv.page :
         LET f == inv.page[i]
         IN  (\E j \in DOMAIN inv.kept : inv.kept[j] = f)
             <=> /\ f.scheduleDate # NoTime
                 /\ f.scheduleTime # NoTime
                 /\ f.scheduleDate * 1440 + f.scheduleTime >= inv.nlTime - 15

\* A page with flights 10, 15 and 20 minutes past and flights without
\* time or date: the first two are kept, the others are not.
C15_Witness ==
    /\ inv.pc # "idle"
    /\ Len(inv.page) = 5
    /\ Kept("KL10") /\ Kept("KL15")
    /\ ~Kept("KL20") /\ ~Kept("KLT") /\ ~Kept("KLD")

\* The number of pages without future flights at the end of the trail.
TrailingPast(trail) ==
    Cardinality({ k \in DOMAIN trail : \A j \in k..Len(trail) : trail[j] = "past" })

\* C16: the loop stops for lack of future flights exactly when the last 3
\* non-empty pages fetched held no future flight: the counter is the
\* length of the current run of such pages, the loop goes on while the run
\* is shorter than 3 and no page is fetched after the third.
C16_StopsAfterThreePastPages ==
    inv.pc # "idle" =>
      /\ inv.pastFlightPagesCount = TrailingPast(inv.trail)
      /\ TrailingPast(inv.trail) <= MAX_PAST_PAGES
      /\ inv.pc = "paging" => TrailingPast(inv.trail) < MAX_PAST_PAGES
      /\ inv.stop = "past" <=> TrailingPast(inv.trail) = MAX_PAST_PAGES

\* A page with a future flight came between: the loop stopped at the
\* fifth page, the third in a row without future flights.
C16_Witness ==
    /\ inv.pc = "processing"
    /\ inv.stop = "past"
    /\ inv.trail = <<"past", "future", "past", "past", "past">>

\* C17: meta.hasMorePages of a non-cached 200 response is true only if the
\* last page fetched was delivered and named a further page.
C17_HasMoreOnlyIfFeedHasMore ==
    (response.statusCode = 200 /\ ~response.body.meta.cached) =>
      ( response.body.meta.hasMorePages =>
          (response.lastPage = "ok" /\ response.lastMore) )

----------------------------------------------------------------------------
(* Claims about the request parameters, checked under SpecParams *)

\* C12: every whitelisted parameter of the caller, page included, is in
\* the first upstream request with the caller's value; flightDirection is
\* 'A'; nothing else is sent but sort and page, and sort is the default
\* when the caller gave none.
C12_CallerParamsUnchanged ==
    (inv.pc # "idle" /\ Len(inv.rawQueryParams) > 0) =>
      LET supplied == ParamNames(inv.rawQueryParams) \cap validParams
      IN  /\ \A n \in supplied \ {"flightDirection"} :
                /\ n \in DOMAIN inv.apiParams
                /\ inv.apiParams[n] = ParamGet(inv.rawQueryParams, n)
          /\ inv.apiParams["flightDirection"] = "A"
          /\ DOMAIN inv.apiParams \subseteq supplied \cup {"flightDirection", "sort", "page"}
          /\ "sort" \notin supplied => inv.apiParams["sort"] = "+scheduleTime"

\* The caller's name/value pairs other than page.
PairsOf(params) == { params[i] : i \in { j \in DOMAIN params : params[j][1] # "page" } }

\* C13: the key of a parameterized request equals the key under which an
\* earlier parameterized request of the same date was stored exactly when
\* the two requests have the same set of name/value pairs other than page.
C13_KeyIsFunctionOfPairs ==
    (inv.pc # "idle" /\ Len(inv.rawQueryParams) > 0) =>
      \A k \in DOMAIN stored :
         (Len(stored[k].params) > 0 /\ k.date = inv.cacheKey.date) =>
           ( PairsOf(inv.rawQueryParams) = PairsOf(stored[k].params)
             <=> inv.cacheKey = k )

\* C18: when the query holds no whitelisted filter parameter, the first
\* upstream request asks for the range from now to now + 24 hours in the
\* default sort order.
C18_DefaultRangeWithoutFilters ==
    ( /\ inv.pc # "idle"
      /\ ParamNames(inv.rawQueryParams) \cap validParams = {} )
    => /\ "fromDateTime" \in DOMAIN inv.apiParams
       /\ inv.apiParams["fromDateTime"] = inv.nlTime
       /\ inv.apiParams["toDateTime"] = inv.nlTime + 24 * 60
       /\ inv.apiParams["sort"] = "+scheduleTime"

----------------------------------------------------------------------------
(* Claims about what is attached, stored and suppressed *)

\* C23: a flight whose destination label has no parenthesized code and
\* names an airport the cache resolves leaves processFlightData with the
\* airport's metadata and the label "City (CODE)": no flight of a fresh
\* response still carries the bare label of a cached airport.
C23_BareLabelUpgraded ==
    (response.statusCode = 200 /\ ~response.body.meta.cached) =>
      \A i \in DOMAIN response.body.flights :
         LET f == response.body.flights[i]
             label == f.route.destinations[1]
         IN  (label \in AirportCodes /\ Has(airportCache, label)) =>
               /\ "cityInfo" \in DOMAIN f
               /\ IncludesParen(label)

\* C24: an invocation whose upstream flight requests all failed writes
\* nothing into the response cache of its handler.
C24_NoCacheWriteWithoutFetch ==
    [][ /\ ( /\ cdgResponse' # cdgResponse
             /\ cdgResponse'.statusCode # 0
             /\ cdgResponse'.requests = 3
             /\ \A b \in {"landed", "active", "scheduled"} :
                   cdgResponse'.feeds[b].kind = "fail" )
           => flightCaches' = flightCaches
        /\ ( /\ response' # response
             /\ response'.statusCode = 200
             /\ response'.requests = 1
             /\ response'.lastPage = "fail" )
           => flightDataCache' = flightDataCache ]_vars

\* C25: every raw flight of the three buckets that is no codeshare and
\* has a flight code has a record with that code in the output.
C25_CodeshareSuppressesNothing ==
    (cdgResponse.statusCode = 200 /\ cdgResponse.requests = 3) =>
      \A f \in OkRaws(cdgResponse.feeds) :
         (~f.flight.codeshared /\ RawCode(f) # "") =>
            \E i \in DOMAIN cdgResponse.body.flights :
               cdgResponse.body.flights[i].flightName = RawCode(f)

\* C22: once the airport cache has expired, fetchAirportData returns
\* metadata only after a request that refreshed it, and an answer of the
\* lookup API leaves the cache fresh.  Checked under SpecAirport, where a
\* step that leaves the clock alone is a call.
C22_ExpiredEntriesAreRefreshed ==
    [][ (now' = now /\ resolved'.op = "fetchAirportData") =>
          LET expired == ~(lastCacheUpdate # 0 /\ now - lastCacheUpdate < CACHE_DURATION)
              r == resolved'.result
              fromApi == resolved'.apiReqs = 1 /\ "source" \in DOMAIN r
              fromDataset == resolved'.dataReqs >= 1 /\ resolved'.dataset = "ok"
          IN  /\ (expired /\ ~IsAbsent(r)) => (fromApi \/ fromDataset)
              /\ fromApi => /\ lastCacheUpdate' # 0
                            /\ now' - lastCacheUpdate' < CACHE_DURATION ]_vars

\* C21: with two invocations interleaved at their awaits, the counter
\* of lookup calls still never exceeds MAX_API_CALLS.  Checked under
\* SpecRace.
C21_BudgetHoldsWhenInterleaved ==
    apiCallsCount \in 0..MAX_API_CALLS

=============================================================================
